---- MODULE Spec2Model ----
(***************************************************************************)
(* tuntihinta-web, src/pages/index.tsx: the page that shows the hourly     *)
(* electricity prices.  getStaticProps assembles the price series of the   *)
(* page from three per-day objects of a bucket and computes how long the   *)
(* page stays valid; Home annotates the series (current hour, day changes, *)
(* weekday labels), shows the current price and reloads the page when      *)
(* tomorrow's prices are due.                                              *)
(*                                                                         *)
(* Representation.  An instant (a JavaScript Date) is a record             *)
(* [d |-> days since 1970-01-01 UTC, ms |-> millisecond of that UTC day]:  *)
(* Date.getTime() in milliseconds does not fit TLC's 32-bit integers.  A   *)
(* calendar date string "YYYY-MM-DD" is the record [y, m, d], m from 1.    *)
(* A startTime string is [date |-> its first ten characters, inst |-> the  *)
(* instant new Date() parses it to].  Prices are integers in hundredths    *)
(* (raw) and in ten-thousandths (after the 1.24 multiplier); a chart x     *)
(* coordinate i - 0.5 is kept doubled, 2*i - 1.  Indices are 0-based as in *)
(* the source; -1 is findIndex's "not found".                              *)
(***************************************************************************)
EXTENDS Integers, Sequences, FiniteSets, TLC

VARIABLES
  fmt,          \* how the bucket writes startTime: "utc" (...Z) or "local" (+02:00/+03:00)
  pc,           \* getStaticProps: "idle", "fetching", "done", "failed"
  now,          \* getStaticProps: const now (line 58)
  dateStrings,  \* getStaticProps: the three object dates (line 60)
  requests,     \* getStaticProps: the three promises (line 63), each pending or settled
  settleOrder,  \* the order in which the promises settled
  nextUpdate,   \* getStaticProps: const nextUpdate (lines 79-83)
  props,        \* the value getStaticProps returned (lines 88-102), NoProps before
  page,         \* the browser page: "none", "mounted", "reloading"
  tz,           \* the browser's time zone: "Europe/Helsinki" or "UTC"
  time,         \* Home: useState time (line 233)
  darkMode,     \* Home: useState darkMode (line 234)
  currentPrice, \* Home: useState currentPrice (line 235)
  renderNow,    \* findCurrentTimeIndex: const now of the last render (line 107), the
                \* latest instant the page read from the clock
  currentIndex, \* annotateCurrentTime: const currentIndex of the last render (line 119)
  annotations,  \* Home: const annotations of the last render (line 264)
  event,        \* the handler that ran last
  hadTomorrow   \* history: since the page loaded, some sampled time had tomorrow's data loaded

vars == <<fmt, pc, now, dateStrings, requests, settleOrder, nextUpdate, props,
          page, tz, time, darkMode, currentPrice, renderNow, currentIndex,
          annotations, event, hadTomorrow>>

buildVars == <<pc, now, dateStrings, requests, settleOrder, nextUpdate, props>>

homeVars == <<page, tz, time, darkMode, currentPrice, renderNow, currentIndex,
              annotations, hadTomorrow>>

-----------------------------------------------------------------------------
(* Bounds of the model.                                                    *)

\* The build and the page run on the base days and up to this many days later.
MaxDayOffset == 1

\* The number of hours in a day object that is published only in part.
PartialLen == 2

-----------------------------------------------------------------------------------------------------------------------------------------------------
(* Dates and instants: what the source uses of JavaScript's Date.  Values  *)
(* used more than once are passed as parameters of a helper operator.      *)

HourMs == 60 * 60 * 1000

DayMs == 24 * 60 * 60 * 1000

Instant(day, ms) == [d |-> day, ms |-> ms]

Normalize(day, total) == [d |-> day + (total \div DayMs), ms |-> total % DayMs]

\* new Date(t.getTime() + k)
AddMs(t, k) == Normalize(t.d, t.ms + k)

\* a.getTime() - b.getTime()
DiffMs(a, b) == (a.d - b.d) * DayMs + (a.ms - b.ms)

\* a < b on Dates
Before(a, b) == a.d < b.d \/ (a.d = b.d /\ a.ms < b.ms)

\* The proleptic Gregorian calendar date of a day number: from the day of the
\* 400-year era (doe) to the year of the era (yoe), the day of the year that
\* starts in March (doy), its month (mp), and the date.
CivilOfMonth(era, yoe, dd, mm) ==
  [y |-> yoe + era * 400 + (IF mm <= 2 THEN 1 ELSE 0), m |-> mm, d |-> dd]

CivilOfMp(era, yoe, doy, mp) ==
  CivilOfMonth(era, yoe, doy - ((153 * mp + 2) \div 5) + 1,
               IF mp < 10 THEN mp + 3 ELSE mp - 9)

CivilOfDoy(era, yoe, doy) == CivilOfMp(era, yoe, doy, (5 * doy + 2) \div 153)

CivilOfYoe(era, doe, yoe) ==
  CivilOfDoy(era, yoe, doe - (365 * yoe + (yoe \div 4) - (yoe \div 100)))

CivilOfDoe(era, doe) ==
  CivilOfYoe(era, doe,
             (doe - (doe \div 1460) + (doe \div 36524) - (doe \div 146096)) \div 365)

CivilFromDays(n) == CivilOfDoe((n + 719468) \div 146097, (n + 719468) % 146097)

\* The day number of a calendar date.
DaysOfEra(era, yoe, doy) ==
  era * 146097 + yoe * 365 + (yoe \div 4) - (yoe \div 100) + doy - 719468

DaysOfMarchYear(y, mp, dd) == DaysOfEra(y \div 400, y % 400, ((153 * mp + 2) \div 5) + dd - 1)

DaysFromCivil(yy, mm, dd) ==
  DaysOfMarchYear(IF mm <= 2 THEN yy - 1 ELSE yy, IF mm > 2 THEN mm - 3 ELSE mm + 9, dd)

\* 0 = Sunday ... 6 = Saturday
WeekdayOfDay(n) == (n + 4) % 7

getUTCDate(t) == CivilFromDays(t.d).d

\* 0 = January, as Date.getUTCMonth
getUTCMonth(t) == CivilFromDays(t.d).m - 1

SundayOnOrBefore(n) == n - WeekdayOfDay(n)

\* The last Sunday of March or October (both have 31 days).
LastSunday(yy, mm) == SundayOnOrBefore(DaysFromCivil(yy, mm, 31))

\* The years the model's instants fall in.
Years == 2021..2024

\* Europe/Helsinki is UTC+3 from the last Sunday of March 01:00 UTC to the last
\* Sunday of October 01:00 UTC, and UTC+2 otherwise.
SummerTime ==
  [yy \in Years |->
     [start |-> Instant(LastSunday(yy, 3), HourMs), end |-> Instant(LastSunday(yy, 10), HourMs)]]

OffsetIn(t, st) == IF ~Before(t, st.start) /\ Before(t, st.end) THEN 3 ELSE 2

HelsinkiOffsetHours(t) == OffsetIn(t, SummerTime[CivilFromDays(t.d).y])

ZoneOffsetHours(zone, t) == IF zone = "UTC" THEN 0 ELSE HelsinkiOffsetHours(t)

\* t as wall-clock time of the zone
LocalTime(zone, t) == AddMs(t, ZoneOffsetHours(zone, t) * HourMs)

\* date.getHours() in the browser's zone
getHours(zone, t) == LocalTime(zone, t).ms \div HourMs

\* date.toLocaleDateString('sv-SE', {timeZone: "Europe/Helsinki"}): YYYY-MM-DD
finnishDate(t) == CivilFromDays(LocalTime("Europe/Helsinki", t).d)

Weekdays ==
  <<"sunnuntai", "maanantai", "tiistai", "keskiviikko", "torstai", "perjantai", "lauantai">>

\* date.toLocaleDateString('fi-FI', {weekday: 'long', timeZone: "Europe/Helsinki"})
finnishWeekday(t) == Weekdays[WeekdayOfDay(LocalTime("Europe/Helsinki", t).d) + 1]

\* date.toISOString().slice(0, 10)
IsoDate(t) == CivilFromDays(t.d)

\* The instant of 00:00 Helsinki time on a calendar date: 22:00 UTC of the day
\* before under UTC+2, 21:00 UTC under UTC+3.  Midnight is never inside a change of
\* offset (they happen at 03:00 and 04:00 local time).
MidnightAmong(date, winter, summer) ==
  IF finnishDate(winter) = date /\ LocalTime("Europe/Helsinki", winter).ms = 0
  THEN winter
  ELSE summer

MidnightOfDay(date, n) ==
  MidnightAmong(date, Instant(n - 1, 22 * HourMs), Instant(n - 1, 21 * HourMs))

HelsinkiMidnight(date) == MidnightOfDay(date, DaysFromCivil(date.y, date.m, date.d))

-----------------------------------------------------------------------------
(* The bucket: one object per Helsinki calendar date, of interface         *)
(* DayPrice, holding the hours of that local day in ascending order.       *)

Kinds == {"rejected", "absent", "malformed", "empty", "partial", "full"}

RawPrices == <<-50, 120, 403, 1000, 1613, 2500, 3226, 4500, 4839, 9000>>

\* The raw price of the hour that starts at t, in hundredths.
RawPrice(t) == RawPrices[((t.d * 7 + (t.ms \div HourMs) * 3) % Len(RawPrices)) + 1]

\* The startTime string of the hour that starts at t.
StartTimeString(f, t) ==
  [date |-> IF f = "utc" THEN IsoDate(t) ELSE finnishDate(t), inst |-> t]

HourPrice(f, t) == [startTime |-> StartTimeString(f, t), price |-> RawPrice(t)]

NextDate(date) == CivilFromDays(DaysFromCivil(date.y, date.m, date.d) + 1)

\* The number of hours of a local day: 24, or 23 and 25 where the offset changes.
HoursInDay(date) ==
  DiffMs(HelsinkiMidnight(NextDate(date)), HelsinkiMidnight(date)) \div HourMs

HoursFrom(f, midnight, n) == [h \in 1..n |-> HourPrice(f, AddMs(midnight, (h - 1) * HourMs))]

DayPrice(f, date, n) == [date |-> date, hourPrices |-> HoursFrom(f, HelsinkiMidnight(date), n)]

Fulfilled(body) == [status |-> "fulfilled", body |-> body]

Json(value) == [kind |-> "json", value |-> value]

\* What getObject({Key: `${date}.json`}).promise() settles to.
GetObject(f, date, kind) ==
  CASE kind = "rejected"  -> [status |-> "rejected"]
    [] kind = "absent"    -> Fulfilled([kind |-> "absent"])
    [] kind = "malformed" -> Fulfilled([kind |-> "malformed"])
    [] kind = "empty"     -> Fulfilled(Json(DayPrice(f, date, 0)))
    [] kind = "partial"   -> Fulfilled(Json(DayPrice(f, date, PartialLen)))
    [] OTHER              -> Fulfilled(Json(DayPrice(f, date, HoursInDay(date))))

-----------------------------------------------------------------------------
(* getStaticProps                                                          *)

Pending == [status |-> "pending"]

NoProps == [ok |-> FALSE]

NoInstant == Instant(0, 0)

\* value.toFixed(digits) of a value kept in ten-thousandths, as an integer in units
\* of 10^-digits: rounds half away from zero.
RoundDiv(v, unit) ==
  IF v >= 0 THEN (v + unit \div 2) \div unit ELSE -((-v + unit \div 2) \div unit)

colorDataPoint(value) ==
  IF value <= 50000 THEN "#087E8B"
  ELSE IF value <= 200000 THEN "#FFE548"
  ELSE IF value <= 400000 THEN "#FFB20F"
  ELSE IF value <= 600000 THEN "#FF7F27"
  ELSE "#FF4B3E"

\* [-1, 0, 1].map(i => finnishDate(new Date(now.getTime() + i * 24 * 60 * 60 * 1000)))
DateStringsOf(n) == [i \in 1..3 |-> finnishDate(AddMs(n, (i - 2) * DayMs))]

isFulfilled(v) == v.status = "fulfilled"

\* A mutant of AllSettled: the results in the order in which the requests settled
\* (as collecting them from callbacks would give).
SettledInSettleOrder(reqs, order) == [k \in 1..Len(order) |-> reqs[order[k]]]

\* Promise.allSettled(requests): the results in the order of the requests,
\* whatever the order in which they settled.
AllSettled(reqs, order) == reqs

\* A mutant of SliceLastTwo: .slice(0, 2), which keeps the two oldest.
SliceFirstTwo(s) == IF Len(s) <= 2 THEN s ELSE SubSeq(s, 1, 2)

\* .slice(-2)
SliceLastTwo(s) == IF Len(s) <= 2 THEN s ELSE SubSeq(s, Len(s) - 1, Len(s))

\* JSON.parse(value.Body?.toString() ?? '{hourPrices: []}'): the fallback text is
\* not JSON (its key is unquoted), so an absent body throws as a malformed one does.
JsonParse(body) ==
  IF body.kind = "json" THEN [ok |-> TRUE, value |-> body.value] ELSE [ok |-> FALSE]

\* e => ({ x: e.startTime, y: e.price * 1.24, label: (e.price * 1.24).toFixed(0) })
Point(e) ==
  [x |-> e.startTime, y |-> e.price * 124, label |-> RoundDiv(e.price * 124, 10000)]

PointsOf(dayPrice) == [h \in 1..Len(dayPrice.hourPrices) |-> Point(dayPrice.hourPrices[h])]

RECURSIVE FlatMapPoints(_)
FlatMapPoints(results) ==
  IF results = <<>> THEN <<>>
  ELSE PointsOf(Head(results)) \o FlatMapPoints(Tail(results))

\* The fulfilled results the series is built from (lines 67-69).
KeptResults(reqs, order) == SliceLastTwo(SelectSeq(AllSettled(reqs, order), isFulfilled))

\* lastStartTime is after now by day of month, or by month (line 81).
TomorrowPresent(lastStartTime, n) ==
  \/ getUTCDate(lastStartTime) > getUTCDate(n)
  \/ getUTCMonth(lastStartTime) > getUTCMonth(n)

\* nextUpdate (lines 79-83): 12:00 UTC of now's day, or of the day after.
NextUpdateOf(lastStartTime, n) ==
  IF TomorrowPresent(lastStartTime, n)
  THEN Instant(n.d + 1, 12 * HourMs)
  ELSE Instant(n.d, 12 * HourMs)

\* A mutant of FloorSeconds: the 60-second floor left out.
SecondsWithoutFloor(ms) == ms \div 1000

\* Math.max(Math.floor(ms / 1000), 60)
FloorSeconds(ms) == IF ms \div 1000 > 60 THEN ms \div 1000 ELSE 60

\* Math.max(Math.floor((nextUpdate.getTime() - now.getTime()) / 1000), 60)
DataValidForSeconds(next, n) == FloorSeconds(DiffMs(next, n))

Threw(what) == [threw |-> what, props |-> NoProps, nextUpdate |-> NoInstant]

\* Lines 85-102: the value returned.
Returned(dataset, n, next) ==
  [threw |-> "",
   props |->
     [ok |-> TRUE,
      data |-> dataset,
      backgroundColor |-> [i \in 1..Len(dataset) |-> colorDataPoint(dataset[i].y)],
      revalidate |-> DataValidForSeconds(next, n)],
   nextUpdate |-> next]

\* Lines 76-83: dataset.slice(-1)[0].x throws on an empty dataset.
PropsOfDataset(dataset, n) ==
  IF dataset = <<>> THEN Threw("dataset")
  ELSE Returned(dataset, n, NextUpdateOf(dataset[Len(dataset)].x.inst, n))

\* Lines 70-75: JSON.parse throws on a kept body that is not JSON.
PropsOfKept(kept, n) ==
  IF \E i \in 1..Len(kept) : ~JsonParse(kept[i].body).ok
  THEN Threw("JSON.parse")
  ELSE PropsOfDataset(
         FlatMapPoints([i \in 1..Len(kept) |-> JsonParse(kept[i].body).value]), n)

\* The outcome of lines 67-102 once every request has settled: the value returned
\* and nextUpdate, or a throw.
StaticProps(reqs, order, n) == PropsOfKept(KeptResults(reqs, order), n)

-----------------------------------------------------------------------------
(* Home and its helpers                                                    *)

maxPrice == 100

\* A mutant of InHour: the end of the hour taken inclusive (now <= endTime).
InHourInclusive(point, n) ==
  /\ ~Before(n, point.x.inst)
  /\ ~Before(AddMs(point.x.inst, HourMs), n)

\* now >= startTime && now < endTime
InHour(point, n) ==
  /\ ~Before(n, point.x.inst)
  /\ Before(n, AddMs(point.x.inst, HourMs))

\* findIndex: the first index that matches (0-based), -1 when none does
FirstIndex(hits) ==
  IF hits = {} THEN -1 ELSE (CHOOSE i \in hits : \A j \in hits : i <= j) - 1

findCurrentTimeIndex(data, n) == FirstIndex({i \in 1..Len(data) : InHour(data[i], n)})

NullAnnotation == [type |-> "null"]

\* A mutant of CurrentTimeBox: the box drawn from the index to the next one.
CurrentTimeBoxShifted(dark, idx) ==
  IF idx = -1 THEN NullAnnotation
  ELSE [type |-> "box",
        xMin2 |-> 2 * idx,
        xMax2 |-> 2 * idx + 2,
        yMin |-> 0,
        yMax |-> maxPrice,
        backgroundColor |->
          IF dark THEN "rgba(255,255,255, 0.3)" ELSE "rgba(205, 237, 246, 0.45)",
        borderWidth |-> 0]

CurrentTimeBox(dark, idx) ==
  IF idx = -1 THEN NullAnnotation
  ELSE [type |-> "box",
        xMin2 |-> 2 * idx - 1,
        xMax2 |-> 2 * idx + 1,
        yMin |-> 0,
        yMax |-> maxPrice,
        backgroundColor |->
          IF dark THEN "rgba(255,255,255, 0.3)" ELSE "rgba(205, 237, 246, 0.45)",
        borderWidth |-> 0]

annotateCurrentTime(dark, data, n) == CurrentTimeBox(dark, findCurrentTimeIndex(data, n))

\* lastDate '' of the accumulator
NoDate == [y |-> 0, m |-> 0, d |-> 0]

\* A mutant of Pushes: the test of acc.lastDate left out, so that the first entry
\* counts as a change of day.
PushesUnguarded(lastDate, date) == lastDate # date

\* The reducer of lines 141-150 pushes the index of an entry whose Helsinki date
\* differs from acc.lastDate, unless acc.lastDate is still ''.
Pushes(lastDate, date) == lastDate # date /\ lastDate # NoDate

\* acc.lastDate when the reducer reaches index i: the reducer sets it to the date of
\* every entry that differs from it, so it is the date of entry i - 1, and '' at 0.
LastDateBefore(dates, i) == IF i = 0 THEN NoDate ELSE dates[i]

\* foo.indices, from the Helsinki dates of the entries
IndicesPushed(dates) ==
  SelectSeq([k \in 1..Len(dates) |-> k - 1],
            LAMBDA i : Pushes(LastDateBefore(dates, i), dates[i + 1]))

DayChangeIndices(data) ==
  IndicesPushed([k \in 1..Len(data) |-> finnishDate(data[k].x.inst)])

\* .slice(0, -1)
DropLast(s) == IF s = <<>> THEN <<>> ELSE SubSeq(s, 1, Len(s) - 1)

LineColour(dark) == IF dark THEN "rgba(255,255,255,0.5)" ELSE "rgba(0,0,0,0.5)"

\* a1 (lines 152-159)
DayChangeLines(dark, indices) ==
  [k \in 1..Len(indices) |->
     [type |-> "line", yMin |-> 0, yMax |-> maxPrice,
      xMin2 |-> 2 * indices[k] - 1, xMax2 |-> 2 * indices[k] - 1,
      borderColor |-> LineColour(dark)]]

\* a2 (lines 162-169), `at` being [0, ...foo.indices]
DayChangeLabels(dark, data, at) ==
  DropLast([k \in 1..Len(at) |->
     [type |-> "label", xValue |-> at[k] + 1, position |-> "start",
      yValue |-> maxPrice - 1,
      content |-> finnishWeekday(data[at[k] + 1].x.inst),
      color |-> LineColour(dark)]])

DayChangesOf(dark, data, indices) ==
  IF Len(data) > 0
  THEN DayChangeLines(dark, indices) \o DayChangeLabels(dark, data, <<0>> \o indices)
  ELSE DayChangeLines(dark, indices)

annotateDayChanges(dark, data) == DayChangesOf(dark, data, DayChangeIndices(data))

\* `dayChange${i}`
DayChangeKey(i) == "dayChange" \o ToString(i)

\* The mapping from annotation id to annotation (lines 177-191).
Keyed(currentTimeAnnotation, dayChanges) ==
  [k \in (IF currentTimeAnnotation # NullAnnotation THEN {"currentTime"} ELSE {})
           \cup {DayChangeKey(i - 1) : i \in 1..Len(dayChanges)} |->
     IF k = "currentTime" THEN currentTimeAnnotation
     ELSE dayChanges[CHOOSE i \in 1..Len(dayChanges) : DayChangeKey(i - 1) = k]]

collectAnnotations(dark, data, n) ==
  Keyed(annotateCurrentTime(dark, data, n), annotateDayChanges(dark, data))

\* y.toFixed(2): the digits of the hundredths
toFixed2(y) == ToString(RoundDiv(y, 100))

PriceAt(data, idx) == IF idx = -1 THEN "-" ELSE toFixed2(data[idx + 1].y)

getCurrentPrice(data, n) == PriceAt(data, findCurrentTimeIndex(data, n))

\* more than two entries whose startTime text begins with the ISO (UTC) date of date
dateIncludedInData(data, date) ==
  Cardinality({i \in 1..Len(data) : data[i].x.date = IsoDate(date)}) > 2

\* A mutant of HourInWindow: the end of the window taken inclusive.
HourInWindowInclusive(h) == h >= 14 /\ h <= 16

HourInWindow(h) == h >= 14 /\ h < 16

\* The condition under which the 15-minute callback reloads the page (lines 237-242).
ReloadDue(zone, data, t) ==
  /\ HourInWindow(getHours(zone, t))
  /\ ~dateIncludedInData(data, AddMs(t, DayMs))

-----
(* The instants and inputs the model draws from.                           *)

At(h, m, sec, ms) == ((h * 60 + m) * 60 + sec) * 1000 + ms

\* 31 October 2022 follows the 25-hour day on which summer time ended; 31 December
\* 2022 is followed by a change of month and year.
BaseDays == {DaysFromCivil(2022, 10, 31), DaysFromCivil(2022, 12, 31)}

Formats == {"utc", "local"}

Zones == {"Europe/Helsinki", "UTC"}

\* The instants at which getStaticProps runs.
BuildTimes ==
  {At(11, 0, 0, 0), At(11, 0, 0, 500), At(11, 59, 30, 0), At(12, 30, 0, 0), At(22, 30, 0, 0)}

NowSamples == {Instant(b + k, t) : b \in BaseDays, k \in 0..MaxDayOffset, t \in BuildTimes}

\* The instants at which the page reads the clock.
PageTimes == {At(12, 45, 0, 0), At(13, 0, 0, 0), At(14, 30, 0, 0)}

PageSamples(n) ==
  {t \in {Instant(n.d + k, ms) : k \in 0..MaxDayOffset, ms \in PageTimes} : ~Before(t, n)}

\* The instants a handler of the mounted page may read after the page read r: r
\* again, or the sample that follows r (the 1-second interval lets the page skip none).
ClockReads(n, r) ==
  {t \in PageSamples(n) :
     \/ t = r
     \/ /\ Before(r, t)
        /\ \A u \in PageSamples(n) : Before(r, u) => ~Before(u, t)}

-----------------------------------------------------------------------------
(* Actions of getStaticProps                                               *)

\* Lines 58-65: sample now, derive the three dates, issue the three requests.
Start(n) ==
  /\ pc = "idle"
  /\ pc' = "fetching"
  /\ now' = n
  /\ dateStrings' = DateStringsOf(n)
  /\ requests' = [i \in 1..3 |-> Pending]
  /\ settleOrder' = <<>>
  /\ UNCHANGED <<fmt, nextUpdate, props, event>>
  /\ UNCHANGED homeVars

\* One request settles, in any order with the others.
Settle(i, kind) ==
  /\ pc = "fetching"
  /\ requests[i] = Pending
  /\ requests' = [requests EXCEPT ![i] = GetObject(fmt, dateStrings[i], kind)]
  /\ settleOrder' = Append(settleOrder, i)
  /\ UNCHANGED <<fmt, pc, now, dateStrings, nextUpdate, props, event>>
  /\ UNCHANGED homeVars

Return(r) ==
  /\ pc' = IF r.threw = "" THEN "done" ELSE "failed"
  /\ props' = r.props
  /\ nextUpdate' = r.nextUpdate

\* Lines 67-102: every request has settled; build the dataset and return, or throw.
Finish ==
  /\ pc = "fetching"
  /\ \A i \in 1..3 : requests[i] # Pending
  /\ Return(StaticProps(requests, settleOrder, now))
  /\ UNCHANGED <<fmt, now, dateStrings, requests, settleOrder, event>>
  /\ UNCHANGED homeVars

-----------------------------------------------------------------------------
(* Actions of Home                                                         *)

\* What a render at instant t leaves: lines 264 and 119.
Render(dark, t) ==
  /\ renderNow' = t
  /\ currentIndex' = findCurrentTimeIndex(props.data, t)
  /\ annotations' = collectAnnotations(dark, props.data, t)

\* The page loads (lines 232-264): the initial state and the first render.  The
\* effect of line 254 that follows it is a DarkModeChange when the scheme is dark.
Mount(t, zone) ==
  /\ pc = "done"
  /\ page \in {"none", "reloading"}
  /\ ~Before(t, renderNow)
  /\ page' = "mounted"
  /\ tz' = zone
  /\ time' = t
  /\ darkMode' = FALSE
  /\ currentPrice' = getCurrentPrice(props.data, t)
  /\ Render(FALSE, t)
  /\ hadTomorrow' = dateIncludedInData(props.data, AddMs(t, DayMs))
  /\ event' = "mount"
  /\ UNCHANGED fmt
  /\ UNCHANGED buildVars

\* The 1-second interval (lines 246-251) and the render and effect it causes
\* (lines 260-264).
ClockTick(t) ==
  /\ page = "mounted"
  /\ time' = t
  /\ currentPrice' = getCurrentPrice(props.data, t)
  /\ Render(darkMode, t)
  /\ hadTomorrow' = (hadTomorrow \/ dateIncludedInData(props.data, AddMs(t, DayMs)))
  /\ event' = "clock"
  /\ UNCHANGED <<fmt, page, tz, darkMode>>
  /\ UNCHANGED buildVars

\* The colour scheme is found dark after the page loaded (line 254) or changes
\* (line 255), and the page renders again.
DarkModeChange(t) ==
  /\ page = "mounted"
  /\ darkMode' = ~darkMode
  /\ Render(~darkMode, t)
  /\ event' = "dark"
  /\ UNCHANGED <<fmt, page, tz, time, currentPrice, hadTomorrow>>
  /\ UNCHANGED buildVars

\* The 15-minute interval (lines 236-244).
CheckTick ==
  /\ page = "mounted"
  /\ page' = IF ReloadDue(tz, props.data, time) THEN "reloading" ELSE "mounted"
  /\ event' = "check"
  /\ UNCHANGED <<fmt, tz, time, darkMode, currentPrice, renderNow, currentIndex,
                 annotations, hadTomorrow>>
  /\ UNCHANGED buildVars

-----------------------------------------------------------------------------
(* Specifications                                                          *)

NoPage ==
  /\ page = "none"
  /\ tz = "UTC"
  /\ time = NoInstant
  /\ darkMode = FALSE
  /\ currentPrice = "-"
  /\ renderNow = NoInstant
  /\ currentIndex = -1
  /\ annotations = <<>>
  /\ event = "none"
  /\ hadTomorrow = FALSE

Init ==
  /\ fmt \in Formats
  /\ pc = "idle"
  /\ now = NoInstant
  /\ dateStrings = <<>>
  /\ requests = <<>>
  /\ settleOrder = <<>>
  /\ nextUpdate = NoInstant
  /\ props = NoProps
  /\ NoPage

NextBuild ==
  \/ \E n \in NowSamples : Start(n)
  \/ \E i \in 1..3, kind \in Kinds : Settle(i, kind)
  \/ Finish

NextHome ==
  \/ \E t \in PageSamples(now), zone \in Zones : Mount(t, zone)
  \/ \E t \in ClockReads(now, renderNow) : ClockTick(t)
  \/ \E t \in ClockReads(now, renderNow) : DarkModeChange(t)
  \/ CheckTick

Next == NextBuild \/ NextHome

Spec == Init /\ [][Next]_vars

\* One run of getStaticProps.
SpecBuild == Init /\ [][NextBuild]_vars

\* The kinds of object the page's build is drawn from.
HomeKinds == {"rejected", "partial", "full"}

HomeBuildTime == At(12, 30, 0, 0)

HomeRequests(f, n, kinds) ==
  [i \in 1..3 |-> GetObject(f, DateStringsOf(n)[i], kinds[i])]

Built(n, reqs, r) ==
  /\ r.threw = ""
  /\ pc = "done"
  /\ now = n
  /\ dateStrings = DateStringsOf(n)
  /\ requests = reqs
  /\ settleOrder = <<1, 2, 3>>
  /\ nextUpdate = r.nextUpdate
  /\ props = r.props

BuiltFrom(n, reqs) == Built(n, reqs, StaticProps(reqs, <<1, 2, 3>>, n))

\* The page of a build that returned.
InitHome ==
  /\ fmt \in Formats
  /\ \E b \in BaseDays, kinds \in [1..3 -> HomeKinds] :
       BuiltFrom(Instant(b, HomeBuildTime), HomeRequests(fmt, Instant(b, HomeBuildTime), kinds))
  /\ NoPage

SpecHome == InitHome /\ [][NextHome]_vars

-----------------------------------------------------------------------------
(* Properties of getStaticProps, checked under SpecBuild.                  *)

Finished == pc \in {"done", "failed"}

\* The requests that were fulfilled, and the two most recent of them.
FulfilledIdx == {i \in DOMAIN requests : requests[i].status = "fulfilled"}

RecentTwo(S) == {i \in S : Cardinality({j \in S : j > i}) < 2}

\* The fulfilled requests whose body is a day object.
WellFormedIdx == {i \in FulfilledIdx : requests[i].body.kind = "json"}

\* The hours of a fulfilled request's day object; none when the body is not one.
HoursOfRequest(i) ==
  IF requests[i].body.kind = "json" THEN requests[i].body.value.hourPrices ELSE <<>>

PointsOfRequest(i) == [h \in DOMAIN HoursOfRequest(i) |-> Point(HoursOfRequest(i)[h])]

\* The points of the requests in S, in the order of their dates.
RECURSIVE PointsInDateOrder(_)
PointsInDateOrder(S) ==
  IF S = {} THEN <<>>
  ELSE PointsOfRequest(CHOOSE i \in S : \A j \in S : i <= j)
         \o PointsInDateOrder(S \ {CHOOSE i \in S : \A j \in S : i <= j})

LocalDatesOf(data) == {finnishDate(data[k].x.inst) : k \in DOMAIN data}

C2_FailsOnlyWithoutData ==
  Finished =>
    (pc = "failed" <=>
       \/ WellFormedIdx = {}
       \/ PointsInDateOrder(RecentTwo(WellFormedIdx)) = <<>>)

\* The requests with every fulfilled fetch of a malformed or absent body replaced
\* by a failed fetch.
MalformedAsRejected ==
  [i \in DOMAIN requests |->
     IF i \in FulfilledIdx \ WellFormedIdx THEN [status |-> "rejected"] ELSE requests[i]]

\* C3: a fetch that completed with a malformed or absent body has the effect of a
\* failed fetch: the cycle ends as it would with that fetch rejected.
C3_MalformedTreatedAsFailedFetch ==
  Finished =>
    /\ (pc = "done") = (StaticProps(MalformedAsRejected, settleOrder, now).threw = "")
    /\ props = StaticProps(MalformedAsRejected, settleOrder, now).props

LastStartTime == props.data[Len(props.data)].x.inst

\* C4: nextUpdate is 12:00 UTC of now's UTC day, a day later exactly when the date
\* of the last entry is after now's date; at 11:00 UTC without a later entry the
\* interval is 3600 seconds.
C4_AdvancedIffLastEntryLater ==
  pc = "done" =>
    /\ nextUpdate = IF LastStartTime.d > now.d
                    THEN Instant(now.d + 1, 12 * HourMs)
                    ELSE Instant(now.d, 12 * HourMs)
    /\ (now.ms = 11 * HourMs /\ LastStartTime.d <= now.d) => props.revalidate = 3600

\* The instants a later run of getStaticProps over the same series is compared at.
LaterNows ==
  {Instant(now.d + k, t) :
     k \in 0..1,
     t \in BuildTimes \cup {At(11, 0, 0, 900), At(11, 0, 1, 500), At(11, 59, 45, 0), At(12, 0, 0, 0)}}

\* The later instants that approach the same nextUpdate without crossing it.
Approaching ==
  {n2 \in LaterNows :
     /\ Before(now, n2)
     /\ ~Before(nextUpdate, n2)
     /\ NextUpdateOf(LastStartTime, n2) = nextUpdate}

\* C5 as stated: the interval is at least 60 and strictly less at every later
\* instant that approaches nextUpdate without crossing it.
C5_StrictlyDecreasing ==
  pc = "done" =>
    /\ props.revalidate >= 60
    /\ \A n2 \in Approaching : DataValidForSeconds(nextUpdate, n2) < props.revalidate

\* C5 as amended: the interval is at least 60, never grows as now approaches
\* nextUpdate, and is strictly less a second or more later while it is above 60.
C5_FloorAndMonotone ==
  pc = "done" =>
    /\ props.revalidate >= 60
    /\ \A n2 \in Approaching :
         /\ DataValidForSeconds(nextUpdate, n2) <= props.revalidate
         /\ (props.revalidate > 60 /\ DiffMs(n2, now) >= 1000)
              => DataValidForSeconds(nextUpdate, n2) < props.revalidate

\* The floor holds the interval at 60 before nextUpdate, with a later instant still
\* short of nextUpdate.
C5_Witness ==
  /\ pc = "done"
  /\ Before(now, nextUpdate)
  /\ props.revalidate = 60
  /\ Approaching # {}

\* C9: whatever the order in which the fetches settled, the series is strictly
\* increasing by startTime and holds exactly the start times of the two most recent
\* fulfilled dates, so that it is the same for every order.
C9_OrderedWhateverTheSettleOrder ==
  pc = "done" =>
    /\ \A k \in 1..(Len(props.data) - 1) :
         Before(props.data[k].x.inst, props.data[k + 1].x.inst)
    /\ {props.data[k].x : k \in DOMAIN props.data}
         = UNION {{HoursOfRequest(i)[h].startTime : h \in DOMAIN HoursOfRequest(i)} :
                    i \in RecentTwo(FulfilledIdx)}

\* Tomorrow's fetch settled first and yesterday's last, and two full days were kept.
C9_Witness ==
  /\ pc = "done"
  /\ settleOrder = <<3, 2, 1>>
  /\ WellFormedIdx = {1, 2, 3}
  /\ Len(props.data) >= 46

-----------------------------------------------------------------------------
(* Properties of Home, checked under SpecHome.                             *)

\* The 0-based indices of the entries whose hour [startTime, startTime + 1 h)
\* holds the instant n.
HoursHolding(n) ==
  {i - 1 : i \in {k \in DOMAIN props.data :
                    /\ DiffMs(n, props.data[k].x.inst) >= 0
                    /\ DiffMs(n, props.data[k].x.inst) < HourMs}}

\* C6: findCurrentTimeIndex returns -1 exactly when no hour of the series holds
\* now, and otherwise the index of the one hour that does.
C6_LocatorFindsTheOneHour ==
  page = "mounted" =>
    /\ (currentIndex = -1) <=> (HoursHolding(renderNow) = {})
    /\ (currentIndex # -1) => (HoursHolding(renderNow) = {currentIndex})

\* now is exactly the start of an hour that follows another one.
C6_Witness ==
  /\ page = "mounted"
  /\ currentIndex > 0
  /\ renderNow = props.data[currentIndex + 1].x.inst
  /\ AddMs(props.data[currentIndex].x.inst, HourMs) = renderNow

LocalDateAt(i) == finnishDate(props.data[i + 1].x.inst)

\* The 0-based indices whose local date differs from that of the index before.
Boundaries == {i \in 1..(Len(props.data) - 1) : LocalDateAt(i) # LocalDateAt(i - 1)}

AnnotationsOfType(type) == {k \in DOMAIN annotations : annotations[k].type = type}

\* The indices that carry a weekday label: the start of the series and every
\* boundary of B, less the last of them.
LabelledIndices(B) == {i \in {0} \cup B : \E j \in B : j > i}

\* The lines are drawn at the boundaries B and the labels after the start of the
\* series and after every boundary but the last.
DrawnAt(B, lines, labels) ==
  /\ Cardinality(lines) = Cardinality(B)
  /\ {annotations[k].xMin2 : k \in lines} = {2 * i - 1 : i \in B}
  /\ Cardinality(B) = Cardinality(LocalDatesOf(props.data)) - 1
  /\ Cardinality(labels) = Cardinality(lines)
  /\ {annotations[k].xValue : k \in labels} = {i + 1 : i \in LabelledIndices(B)}
  /\ \A k \in labels :
       annotations[k].content = finnishWeekday(props.data[annotations[k].xValue].x.inst)

\* C7: there is one day-boundary line per index whose local date differs from the
\* previous index's, at x = index - 0.5 and never at index 0, so one fewer than the
\* distinct local dates; and as many weekday labels as lines, placed after the start
\* of the series and after every boundary but the last.
C7_DayBoundariesAndLabels ==
  page = "mounted" =>
    DrawnAt(Boundaries, AnnotationsOfType("line"), AnnotationsOfType("label"))

\* The series spans two local dates: one line and one label are drawn.
C7_Witness ==
  /\ page = "mounted"
  /\ Boundaries # {}
  /\ AnnotationsOfType("line") # {}
  /\ AnnotationsOfType("label") # {}

\* C8: the mapping has the key currentTime exactly when an hour of the series holds
\* now; the box then spans index - 0.5 to index + 0.5 over 0..maxPrice; and the
\* current price is '-' exactly when no hour holds the sampled time.
C8_CurrentTimeBox ==
  page = "mounted" =>
    /\ ("currentTime" \in DOMAIN annotations) <=> (HoursHolding(renderNow) # {})
    /\ \A i \in HoursHolding(renderNow) :
         /\ annotations["currentTime"].type = "box"
         /\ annotations["currentTime"].xMin2 = 2 * i - 1
         /\ annotations["currentTime"].xMax2 = 2 * i + 1
         /\ annotations["currentTime"].yMin = 0
         /\ annotations["currentTime"].yMax = maxPrice
    /\ (currentPrice = "-") <=> (HoursHolding(time) = {})
    /\ \A i \in HoursHolding(time) :
         currentPrice = ToString(RoundDiv(props.data[i + 1].y, 100))

\* The locator misses on a page that shows a series: no box, and the placeholder.
C8_Witness ==
  /\ page = "mounted"
  /\ Len(props.data) >= 23
  /\ HoursHolding(renderNow) = {}
  /\ "currentTime" \notin DOMAIN annotations
  /\ currentPrice = "-"

\* The hour of the sampled time in the browser's zone.
SampledHour == LocalTime(tz, time).ms \div HourMs

\* The entries whose startTime text begins with the date 24 hours after the sampled
\* time.
EntriesOfTomorrow ==
  {i \in DOMAIN props.data : props.data[i].x.date = CivilFromDays(AddMs(time, DayMs).d)}

\* Each check reloads exactly when the sampled hour is 14 or 15 and the series lacks
\* tomorrow's date, and nothing else reloads.
ReloadsExactlyWhenDue ==
  /\ event = "check" =>
       ((page = "reloading") <=>
          (SampledHour \in {14, 15} /\ Cardinality(EntriesOfTomorrow) <= 2))
  /\ page = "reloading" => event = "check"

\* C10 as stated: each check reloads exactly when it is due, and once the loaded
\* series included tomorrow's data no later check reloads.
C10_NeverReloadsOnceTomorrowLoaded ==
  /\ ReloadsExactlyWhenDue
  /\ hadTomorrow => page # "reloading"

\* C10 as amended: each check reloads exactly when the sampled hour is 14 or 15 and
\* the series lacks the date 24 hours after the sampled time; a check made while the
\* series includes that date never reloads.
C10_ReloadsExactlyWhenDue ==
  /\ ReloadsExactlyWhenDue
  /\ (event = "check" /\ Cardinality(EntriesOfTomorrow) > 2) => page = "mounted"

\* A check in hour 14 or 15 that found tomorrow's data loaded and did not reload.
C10_Witness ==
  /\ event = "check"
  /\ page = "mounted"
  /\ SampledHour \in {14, 15}
  /\ Cardinality(EntriesOfTomorrow) > 2

====
